---- MODULE Spec2Model ----
(***************************************************************************)
(* Model of maze.py: the Maze class with its depth-first search `solve`,   *)
(* the helpers it calls, and the class-level containers `path` and         *)
(* `movements`.  Points are <<x, y>> tuples as in the source; the maze is  *)
(* a 2-D array indexed maze[y][x] with rows 0..Rows-1 and columns          *)
(* 0..Cols-1.  Array reads follow the indexing rule of the ndarray the     *)
(* source uses: an index i of an axis of size n is accepted iff            *)
(* -n <= i < n, a negative index counts from the end, and any other index  *)
(* raises IndexError.                                                      *)
(***************************************************************************)
EXTENDS Integers, Sequences, FiniteSets, TLC

\* Bounds of the model: the size of the grids and the number of solve calls
\* and instances explored in the shared-state specification.
Cols == 3
Rows == 3
MaxEmpty == 3
ReuseCols == 3
ReuseRows == 2
MaxCalls == 2
LocateEmpty == 2
TextCols == 2
TextRows == 2
TallCols == 3
TallRows == 4
TallEmpty == 4
RoomCols == 4
RoomRows == 3
RoomWalls == 1

\* Cell codes (Maze.START_POINT .. Maze.WALL).
WALL == 0
EMPTY == 1
START_POINT == 2
GOAL_POINT == 3
NORTH == 4
EAST == 5
SOUTH == 6
WEST == 7

\* CHAR_MAP with the space mapped to the Wall code
CHAR_MAP_SpaceAsWall ==
    << <<"*", WALL>>, <<" ", WALL>>, <<"A", START_POINT>>, <<"B", GOAL_POINT>>,
       <<"N", NORTH>>, <<"E", EAST>>, <<"S", SOUTH>>, <<"W", WEST>> >>

\* Maze.CHAR_MAP, as the (char, code) items in the order the dict lists them.
CHAR_MAP ==
    << <<"*", WALL>>, <<" ", EMPTY>>, <<"A", START_POINT>>, <<"B", GOAL_POINT>>,
       <<"N", NORTH>>, <<"E", EAST>>, <<"S", SOUTH>>, <<"W", WEST>> >>

\* Movement.get_all / Maze.MOVEMENTS: the fixed exploration order.
MOVEMENTS == <<"N", "E", "S", "W">>

NoMovement == "None"

VARIABLES
    maze,           \* self.maze of the live instance
    current_pos,    \* self.current_pos
    goal_pos,       \* self.goal_pos
    path,           \* Maze.path, the class-level list every instance appends to
    movements,      \* Maze.movements, the class-level list every instance appends to
    next_movement,  \* local next_movement of solve
    pc,             \* "idle", "next" (line 111), "loop" (line 112), "returned", "raised"
    result,         \* return value of the last solve: "none", "True", "False"
    err,            \* exception that ended the last solve: "none", "pop", "index"
    calls,          \* number of solve calls started so far
    fresh,          \* TRUE while no solve call has ended before the current one
    last_movement,  \* local last_movement of solve (line 122), NoMovement before a step back
    evals,          \* candidate movements examined by the for loop (line 235) in this solve call
    popped,         \* positions removed from path by line 115 in this solve call
    text,           \* lines read by from_txt (line 151)
    overlay,        \* local maze of get_maze_with_movements (lines 180-184)
    output          \* string returned by the last get_maze / get_maze_with_movements

vars == <<maze, current_pos, goal_pos, path, movements, next_movement, pc,
          result, err, calls, fresh, last_movement, evals, popped, text,
          overlay, output>>

\* The variables solve never touches
io == <<text, overlay, output>>

----------------------------------------------------------------------------
\* Pure helpers of the source.

\* Movement.get_opposite
get_opposite(m) ==
    IF m = "N" THEN "S"
    ELSE IF m = "E" THEN "W"
    ELSE IF m = "S" THEN "N"
    ELSE "E"

\* Maze.__get_point_by_movement
get_point_by_movement(point, movement) ==
    LET x == point[1]
        y == point[2]
    IN IF movement = "N" THEN <<x, y - 1>>
       ELSE IF movement = "E" THEN <<x + 1, y>>
       ELSE IF movement = "S" THEN <<x, y + 1>>
       ELSE <<x - 1, y>>

Height(mz) == Cardinality(DOMAIN mz)
Width(mz) == Cardinality(DOMAIN mz[0])

\* ndarray indexing: is index i accepted on an axis of size n
IndexOk(i, n) == -n <= i /\ i < n

\* ndarray indexing: the element a negative or non-negative index denotes
Norm(i, n) == IF i < 0 THEN i + n ELSE i

\* self.maze[y, x], defined when both indices are accepted
At(mz, y, x) == mz[Norm(y, Height(mz))][Norm(x, Width(mz))]

\* Does self.maze[y, x] raise IndexError
AtRaises(mz, y, x) == ~IndexOk(y, Height(mz)) \/ ~IndexOk(x, Width(mz))

\* A cycle test that looks at the position before the current one only
InPath_PredecessorOnly(pth, point) ==
    Len(pth) >= 2 /\ pth[Len(pth) - 1] = point

\* point in self.path
InPath(pth, point) == \E i \in 1..Len(pth) : pth[i] = point

\* Maze.__get_point: the position of the single cell holding `kind`
get_point(mz, kind) ==
    CHOOSE p \in (0..Width(mz) - 1) \X (0..Height(mz) - 1) : mz[p[2]][p[1]] = kind

\* Maze.__get_point raises (int() of an array whose size is not 1, line 212)
\* unless exactly one cell holds `kind`
get_point_raises(mz, kind) ==
    Cardinality({ p \in (0..Width(mz) - 1) \X (0..Height(mz) - 1) :
                    mz[p[2]][p[1]] = kind }) # 1

\* Maze.__is_valid_point raises iff the point is not in path and the read fails
is_valid_point_raises(mz, pth, point) ==
    ~InPath(pth, point) /\ AtRaises(mz, point[2], point[1])

\* __is_valid_point without the cycle test of lines 217-219
is_valid_point_NoCycleTest(mz, pth, point) ==
    At(mz, point[2], point[1]) # 0
    /\ At(mz, point[2], point[1]) \in {EMPTY, GOAL_POINT}

\* Maze.__is_valid_point (truth value of the result), when it does not raise
is_valid_point(mz, pth, point) ==
    IF InPath(pth, point) THEN FALSE
    ELSE At(mz, point[2], point[1]) # 0
         /\ At(mz, point[2], point[1]) \in {EMPTY, GOAL_POINT}

\* Line 239: `movement == self.movements[-1].get_opposite` compares a Movement
\* with the bound method itself (it is not called), which is never equal.
IsPathBack(movement, last) == FALSE

\* The for loop of Maze.__get_next_possible_movement from index i of MOVEMENTS:
\* the first valid movement, NoMovement, or "IndexError" when a read raises.
RECURSIVE ScanMovements(_, _, _, _, _)
ScanMovements(mz, cur, pth, mvs, i) ==
    IF i > Len(MOVEMENTS) THEN NoMovement
    ELSE LET movement == MOVEMENTS[i]
             next_point == get_point_by_movement(cur, movement)
         IN IF Len(mvs) > 0 /\ IsPathBack(movement, mvs[Len(mvs)])
            THEN ScanMovements(mz, cur, pth, mvs, i + 1)
            ELSE IF is_valid_point_raises(mz, pth, next_point) THEN "IndexError"
            ELSE IF is_valid_point(mz, pth, next_point) THEN movement
            ELSE ScanMovements(mz, cur, pth, mvs, i + 1)

\* The number of movements the for loop examines from index i before it
\* returns or raises
RECURSIVE ScanEvaluations(_, _, _, _, _)
ScanEvaluations(mz, cur, pth, mvs, i) ==
    IF i > Len(MOVEMENTS) THEN 0
    ELSE LET movement == MOVEMENTS[i]
             next_point == get_point_by_movement(cur, movement)
         IN IF Len(mvs) > 0 /\ IsPathBack(movement, mvs[Len(mvs)])
            THEN 1 + ScanEvaluations(mz, cur, pth, mvs, i + 1)
            ELSE IF is_valid_point_raises(mz, pth, next_point) THEN 1
            ELSE IF is_valid_point(mz, pth, next_point) THEN 1
            ELSE 1 + ScanEvaluations(mz, cur, pth, mvs, i + 1)

\* self.MOVEMENTS.index(m), 1-based
MovementIndex(m) == CHOOSE i \in 1..Len(MOVEMENTS) : MOVEMENTS[i] = m

\* __get_next_possible_movement that slices MOVEMENTS from the tried movement
\* itself instead of the one after it
get_next_possible_movement_FromTried(mz, cur, pth, mvs, already_tried_movement) ==
    IF already_tried_movement # NoMovement
    THEN ScanMovements(mz, cur, pth, mvs, MovementIndex(already_tried_movement))
    ELSE ScanMovements(mz, cur, pth, mvs, 1)

\* Maze.__get_next_possible_movement(already_tried_movement)
get_next_possible_movement(mz, cur, pth, mvs, already_tried_movement) ==
    IF already_tried_movement # NoMovement
    THEN ScanMovements(mz, cur, pth, mvs, MovementIndex(already_tried_movement) + 1)
    ELSE ScanMovements(mz, cur, pth, mvs, 1)

\* The first index of MOVEMENTS the for loop examines
FirstIndex(already_tried_movement) ==
    IF already_tried_movement # NoMovement
    THEN MovementIndex(already_tried_movement) + 1
    ELSE 1

\* Maze.get_path
get_path(mvs) == mvs

----------------------------------------------------------------------------
\* Text input and output.  A string is a sequence of one-character strings.

\* str(j) for a cell code j
Digits == <<"0", "1", "2", "3", "4", "5", "6", "7", "8", "9">>
StrOf(j) == Digits[j + 1]

\* int(c) for a digit character c
IntOf(c) == (CHOOSE k \in 1..Len(Digits) : Digits[k] = c) - 1

IsDigit(c) == \E k \in 1..Len(Digits) : Digits[k] = c

\* str.replace(old, new) for one-character old and new
Replace(line, old, new) ==
    [k \in 1..Len(line) |-> IF line[k] = old THEN new ELSE line[k]]

\* from_txt, lines 156-157: replace every char of CHAR_MAP by its code, item
\* by item from item n on
RECURSIVE CharsToCodes(_, _)
CharsToCodes(line, n) ==
    IF n > Len(CHAR_MAP) THEN line
    ELSE CharsToCodes(Replace(line, CHAR_MAP[n][1], StrOf(CHAR_MAP[n][2])), n + 1)

\* get_maze, lines 169-170: replace every code of CHAR_MAP by its char, item
\* by item from item n on
RECURSIVE CodesToChars(_, _)
CodesToChars(line, n) ==
    IF n > Len(CHAR_MAP) THEN line
    ELSE CodesToChars(Replace(line, StrOf(CHAR_MAP[n][2]), CHAR_MAP[n][1]), n + 1)

\* from_txt, lines 154-161: the matrix of the lines, rows and columns from 0
from_txt(lines) ==
    [y \in 0..Len(lines) - 1 |->
        LET line == CharsToCodes(lines[y + 1], 1)
        IN [x \in 0..Len(line) - 1 |-> IntOf(line[x + 1])]]

\* from_txt raises ValueError when int() meets a character that is no digit
from_txt_raises(lines) ==
    \E y \in 1..Len(lines) :
        LET line == CharsToCodes(lines[y], 1)
        IN \E x \in 1..Len(line) : ~IsDigit(line[x])

\* get_maze, lines 166-171, for the rows from row y on
RECURSIVE RenderRows(_, _)
RenderRows(mz, y) ==
    IF y >= Height(mz) THEN <<>>
    ELSE LET w == Cardinality(DOMAIN mz[y])
             str_line == [k \in 1..w |-> StrOf(mz[y][k - 1])]
         IN CodesToChars(str_line, 1) \o <<"\n">> \o RenderRows(mz, y + 1)

\* Maze.get_maze
get_maze(mz) == RenderRows(mz, 0)

\* self.CHAR_MAP[movement.value]
MarkerOf(movement) ==
    CHAR_MAP[CHOOSE n \in 1..Len(CHAR_MAP) : CHAR_MAP[n][1] = movement][2]

\* maze[y][x] = v on the copy, with the indexing rule of the array
SetAt(mz, y, x, v) ==
    LET yy == Norm(y, Height(mz))
        xx == Norm(x, Width(mz))
    IN [mz EXCEPT ![yy] = [@ EXCEPT ![xx] = v]]

\* get_maze_with_movements, lines 182-184: the loop over self.path from entry
\* i on, taking the movements from the front of the copied list
RECURSIVE OverlayFrom(_, _, _, _)
OverlayFrom(mz, pth, mvs, i) ==
    IF i > Len(pth) THEN mz
    ELSE OverlayFrom(SetAt(mz, pth[i][2], pth[i][1], MarkerOf(Head(mvs))),
                     pth, Tail(mvs), i + 1)

----------------------------------------------------------------------------
\* Grids: rectangular arrays with exactly one Start and exactly one Goal.

Cells(w, h) == (0..w - 1) \X (0..h - 1)

MakeGrid(w, h, s, g, walls) ==
    [y \in 0..h - 1 |-> [x \in 0..w - 1 |->
        IF <<x, y>> = s THEN START_POINT
        ELSE IF <<x, y>> = g THEN GOAL_POINT
        ELSE IF <<x, y>> \in walls THEN WALL
        ELSE EMPTY]]

\* The subsets of S with at most k elements
RECURSIVE SubsetsUpTo(_, _)
SubsetsUpTo(S, k) ==
    IF k = 0 THEN {{}}
    ELSE LET smaller == SubsetsUpTo(S, k - 1)
         IN smaller \cup { e \cup {x} : e \in smaller, x \in S }

\* mz is a grid of w columns and h rows with one Start, one Goal and at most
\* k Empty cells; every other cell is Wall.
IsGridUpTo(mz, w, h, k) ==
    \E s \in Cells(w, h) :
        \E g \in Cells(w, h) \ {s} :
            \E empties \in SubsetsUpTo(Cells(w, h) \ {s, g}, k) :
                mz = MakeGrid(w, h, s, g, Cells(w, h) \ empties)

IsGrid(mz, w, h) == IsGridUpTo(mz, w, h, MaxEmpty)

\* mz is a room: w by h inner cells inside a border of Wall, with one Start and
\* one Goal inside and at most k inner Wall cells.
IsRoom(mz, w, h, k) ==
    LET inner == (1..w) \X (1..h)
    IN \E s \in inner :
           \E g \in inner \ {s} :
               \E walls \in SubsetsUpTo(inner \ {s, g}, k) :
                   mz = MakeGrid(w + 2, h + 2, s, g,
                                 (Cells(w + 2, h + 2) \ inner) \cup walls)

----------------------------------------------------------------------------
\* Operations.

\* Maze.__init__ on the first instance of the process; the class attributes
\* have their declared defaults.
InitState ==
    /\ current_pos = <<0, 0>>
    /\ goal_pos = <<0, 0>>
    /\ path = <<>>
    /\ movements = <<>>
    /\ next_movement = NoMovement
    /\ pc = "idle"
    /\ result = "none"
    /\ err = "none"
    /\ calls = 0
    /\ fresh = TRUE
    /\ last_movement = NoMovement
    /\ evals = 0
    /\ popped = {}
    /\ text = <<>>
    /\ overlay = <<>>
    /\ output = <<>>

InitWith(w, h) == IsGrid(maze, w, h) /\ InitState

Init == InitWith(Cols, Rows)

\* solve whose lookup falls back to the class default (0, 0) for a missing cell
SolveBegin_DefaultPoint ==
    /\ current_pos' = (IF get_point_raises(maze, START_POINT)
                       THEN <<0, 0>> ELSE get_point(maze, START_POINT))
    /\ goal_pos' = (IF get_point_raises(maze, GOAL_POINT)
                    THEN <<0, 0>> ELSE get_point(maze, GOAL_POINT))
    /\ pc' = "next"
    /\ err' = "none"
    /\ next_movement' = NoMovement
    /\ last_movement' = NoMovement
    /\ result' = "none"
    /\ calls' = calls + 1
    /\ evals' = 0
    /\ popped' = {}
    /\ UNCHANGED <<maze, path, movements, io>>

\* solve, lines 105-106: resolve the start and the goal.
SolveBegin ==
    /\ IF get_point_raises(maze, START_POINT)
       THEN \* line 105 raises before anything is assigned
            /\ pc' = "raised"
            /\ err' = "type"
            /\ UNCHANGED <<current_pos, goal_pos>>
       ELSE /\ current_pos' = get_point(maze, START_POINT)
            /\ IF get_point_raises(maze, GOAL_POINT)
               THEN \* line 106 raises
                    /\ pc' = "raised"
                    /\ err' = "type"
                    /\ UNCHANGED goal_pos
               ELSE /\ goal_pos' = get_point(maze, GOAL_POINT)
                    /\ pc' = "next"
                    /\ err' = "none"
    /\ next_movement' = NoMovement
    /\ last_movement' = NoMovement
    /\ result' = "none"
    /\ calls' = calls + 1
    /\ evals' = 0
    /\ popped' = {}
    /\ UNCHANGED <<maze, path, movements, io>>

\* The first solve call on the live instance.
Solve ==
    /\ pc = "idle"
    /\ SolveBegin
    /\ UNCHANGED fresh

\* solve, line 111: next_movement = self.__get_next_possible_movement()
GetNext ==
    /\ pc = "next"
    /\ LET nm == get_next_possible_movement(maze, current_pos, path, movements, NoMovement)
       IN IF nm = "IndexError"
          THEN /\ pc' = "raised"
               /\ err' = "index"
               /\ UNCHANGED next_movement
          ELSE /\ pc' = "loop"
               /\ next_movement' = nm
               /\ UNCHANGED err
    /\ last_movement' = NoMovement
    /\ evals' = evals + ScanEvaluations(maze, current_pos, path, movements, 1)
    /\ UNCHANGED <<maze, current_pos, goal_pos, path, movements, result, calls, fresh,
                   popped, io>>

\* solve, lines 112-124: one pass of the inner while loop (step back).
Backtrack ==
    /\ pc = "loop"
    /\ next_movement = NoMovement
    /\ IF Len(path) = 0
       THEN \* line 115: pop from an empty list
            /\ pc' = "raised"
            /\ err' = "pop"
            /\ UNCHANGED <<current_pos, path, movements, next_movement, result,
                           last_movement, evals, popped>>
       ELSE LET rest == SubSeq(path, 1, Len(path) - 1)
            IN /\ path' = rest
               /\ popped' = popped \cup {path[Len(path)]}
               /\ IF Len(rest) = 0
                  THEN \* line 118
                       /\ pc' = "returned"
                       /\ result' = "False"
                       /\ UNCHANGED <<current_pos, movements, next_movement, err,
                                      last_movement, evals>>
                  ELSE /\ current_pos' = rest[Len(rest)]
                       /\ IF Len(movements) = 0
                          THEN \* line 122: pop from an empty list
                               /\ pc' = "raised"
                               /\ err' = "pop"
                               /\ UNCHANGED <<movements, next_movement, result,
                                              last_movement, evals>>
                          ELSE LET last == movements[Len(movements)]
                                   mvs == SubSeq(movements, 1, Len(movements) - 1)
                                   nm == get_next_possible_movement(
                                             maze, rest[Len(rest)], rest, mvs, last)
                               IN /\ movements' = mvs
                                  /\ last_movement' = last
                                  /\ evals' = evals + ScanEvaluations(
                                         maze, rest[Len(rest)], rest, mvs,
                                         FirstIndex(last))
                                  /\ IF nm = "IndexError"
                                     THEN /\ pc' = "raised"
                                          /\ err' = "index"
                                          /\ UNCHANGED <<next_movement, result>>
                                     ELSE /\ next_movement' = nm
                                          /\ UNCHANGED <<pc, err, result>>
    /\ UNCHANGED <<maze, goal_pos, calls, fresh, io>>

\* Follow that records the position it leaves instead of the one it reaches
Follow_RecordsOldPosition ==
    /\ pc = "loop"
    /\ next_movement # NoMovement
    /\ LET np == get_point_by_movement(current_pos, next_movement)
       IN /\ current_pos' = np
          /\ IF np = goal_pos
             THEN /\ pc' = "returned"
                  /\ result' = "True"
                  /\ UNCHANGED <<path, movements>>
             ELSE /\ movements' = Append(movements, next_movement)
                  /\ path' = Append(path, current_pos)
                  /\ pc' = "next"
                  /\ UNCHANGED result
    /\ UNCHANGED <<maze, goal_pos, next_movement, err, calls, fresh, last_movement,
                   evals, popped, io>>

\* solve, lines 127-137: follow the movement; stop at the goal, else record it.
Follow ==
    /\ pc = "loop"
    /\ next_movement # NoMovement
    /\ LET np == get_point_by_movement(current_pos, next_movement)
       IN /\ current_pos' = np
          /\ IF np = goal_pos
             THEN /\ pc' = "returned"
                  /\ result' = "True"
                  /\ UNCHANGED <<path, movements>>
             ELSE /\ movements' = Append(movements, next_movement)
                  /\ path' = Append(path, np)
                  /\ pc' = "next"
                  /\ UNCHANGED result
    /\ UNCHANGED <<maze, goal_pos, next_movement, err, calls, fresh, last_movement,
                   evals, popped, io>>

\* get_maze_with_movements after a successful solve (main, lines 255-259).
\* movements.pop(0) raises when the copied list runs out before path does.
GetMazeWithMovements ==
    /\ pc = "returned"
    /\ result = "True"
    /\ IF Len(movements) < Len(path)
       THEN /\ pc' = "raised"
            /\ err' = "pop"
            /\ UNCHANGED <<overlay, output>>
       ELSE /\ overlay' = OverlayFrom(maze, path, movements, 1)
            /\ output' = get_maze(OverlayFrom(maze, path, movements, 1))
            /\ UNCHANGED <<pc, err>>
    /\ UNCHANGED <<maze, current_pos, goal_pos, path, movements, next_movement,
                   result, calls, fresh, last_movement, evals, popped, text>>

Next == Solve \/ GetNext \/ Backtrack \/ Follow \/ GetMazeWithMovements

Spec == Init /\ [][Next]_vars

\* The loop of solve runs to its end once started: the program is sequential
\* and nothing suspends it.
FairSpec == Spec /\ WF_vars(Next)

----------------------------------------------------------------------------
\* Several solve calls and several instances in one process.  `path` and
\* `movements` are class attributes (lines 73 and 76) that solve only mutates
\* in place, so every instance and every call works on the same two lists.

InitReuse == InitWith(ReuseCols, ReuseRows)

\* A further solve call on the same instance after the previous one ended.
SolveAgain ==
    /\ pc \in {"returned", "raised"}
    /\ calls < MaxCalls
    /\ SolveBegin
    /\ fresh' = FALSE

\* Maze.__init__ of another instance after a solve call ended: it sets
\* self.maze only; current_pos and goal_pos read the class defaults again.
NewInstance ==
    /\ pc \in {"returned", "raised"}
    /\ calls < MaxCalls
    /\ IsGrid(maze', ReuseCols, ReuseRows)
    /\ current_pos' = <<0, 0>>
    /\ goal_pos' = <<0, 0>>
    /\ next_movement' = NoMovement
    /\ pc' = "idle"
    /\ result' = "none"
    /\ err' = "none"
    /\ fresh' = FALSE
    /\ UNCHANGED <<path, movements, calls, last_movement, evals, popped, io>>

NextReuse ==
    \/ Solve \/ GetNext \/ Backtrack \/ Follow \/ GetMazeWithMovements
    \/ SolveAgain \/ NewInstance

SpecReuse == InitReuse /\ [][NextReuse]_vars

----------------------------------------------------------------------------
\* Grids that may lack the Start or the Goal cell.

NoCell == <<-1, -1>>

InitLocate ==
    /\ \E s \in Cells(Cols, Rows) \cup {NoCell} :
         \E g \in (Cells(Cols, Rows) \ {s}) \cup {NoCell} :
            \E empties \in SubsetsUpTo(Cells(Cols, Rows) \ {s, g}, LocateEmpty) :
                maze = MakeGrid(Cols, Rows, s, g, Cells(Cols, Rows) \ empties)
    /\ InitState

SpecLocate == InitLocate /\ [][Next]_vars

----------------------------------------------------------------------------
\* Taller grids, and rooms closed by a border of Wall.

InitTall == IsGridUpTo(maze, TallCols, TallRows, TallEmpty) /\ InitState

SpecTall == InitTall /\ [][Next]_vars

InitRoom == IsRoom(maze, RoomCols, RoomRows, RoomWalls) /\ InitState

SpecRoom == InitRoom /\ [][Next]_vars

----------------------------------------------------------------------------
\* Reading a maze file and printing the unsolved maze.

TextChars == {"*", " ", "A", "B"}

\* The rectangular texts of at most TextRows lines of at most TextCols characters
InitText ==
    /\ \E h \in 1..TextRows : \E w \in 1..TextCols :
         text \in [1..h -> [1..w -> TextChars]]
    /\ maze = <<>>
    /\ current_pos = <<0, 0>>
    /\ goal_pos = <<0, 0>>
    /\ path = <<>>
    /\ movements = <<>>
    /\ next_movement = NoMovement
    /\ pc = "file"
    /\ result = "none"
    /\ err = "none"
    /\ calls = 0
    /\ fresh = TRUE
    /\ last_movement = NoMovement
    /\ evals = 0
    /\ popped = {}
    /\ overlay = <<>>
    /\ output = <<>>

\* Maze.from_txt on the lines of the file
FromTxt ==
    /\ pc = "file"
    /\ IF from_txt_raises(text)
       THEN /\ pc' = "raised"
            /\ err' = "value"
            /\ UNCHANGED maze
       ELSE /\ maze' = from_txt(text)
            /\ pc' = "idle"
            /\ UNCHANGED err
    /\ UNCHANGED <<current_pos, goal_pos, path, movements, next_movement, result,
                   calls, fresh, last_movement, evals, popped, text, overlay, output>>

\* Maze.__str__: get_maze of the unsolved maze
Str ==
    /\ pc = "idle"
    /\ output' = get_maze(maze)
    /\ UNCHANGED <<maze, current_pos, goal_pos, path, movements, next_movement, pc,
                   result, err, calls, fresh, last_movement, evals, popped, text,
                   overlay>>

NextText == FromTxt \/ Str

SpecText == InitText /\ [][NextText]_vars

----------------------------------------------------------------------------
\* Vocabulary of the properties.

InBounds(mz, p) ==
    /\ 0 <= p[1] /\ p[1] < Width(mz)
    /\ 0 <= p[2] /\ p[2] < Height(mz)

\* The grid cell a point denotes when used as maze[y, x]
CellOf(mz, p) == <<Norm(p[1], Width(mz)), Norm(p[2], Height(mz))>>

Neighbours(mz, p) ==
    { q \in { get_point_by_movement(p, MOVEMENTS[i]) : i \in 1..Len(MOVEMENTS) } :
        InBounds(mz, q) }

\* Cells reachable from `seen` by steps onto in-bounds Empty cells
RECURSIVE Flood(_, _)
Flood(mz, seen) ==
    LET more == { q \in UNION { Neighbours(mz, p) : p \in seen } :
                    mz[q[2]][q[1]] = EMPTY } \ seen
    IN IF more = {} THEN seen ELSE Flood(mz, seen \cup more)

\* Goal is reachable from Start through in-bounds Empty cells
GoalReachable(mz) ==
    \E p \in Flood(mz, {get_point(mz, START_POINT)}) :
        get_point(mz, GOAL_POINT) \in Neighbours(mz, p)

\* The position reached from p by taking the movements of mvs in order
RECURSIVE Replay(_, _)
Replay(p, mvs) ==
    IF Len(mvs) = 0 THEN p
    ELSE Replay(get_point_by_movement(p, Head(mvs)), Tail(mvs))

\* All four neighbours of the cell of `kind` are in bounds and Wall
Enclosed(mz, kind) ==
    \A i \in 1..Len(MOVEMENTS) :
        LET q == get_point_by_movement(get_point(mz, kind), MOVEMENTS[i])
        IN InBounds(mz, q) /\ mz[q[2]][q[1]] = WALL

Ended == pc \in {"returned", "raised"}

----------------------------------------------------------------------------
\* Properties.

\* C1: solve returns success if and only if Goal is reachable from Start by
\* North/East/South/West steps through in-bounds Empty cells.
C1_SuccessIffReachable ==
    Ended => ((pc = "returned" /\ result = "True") <=> GoalReachable(maze))

\* C2: whenever solve returns success, replaying the characters of get_path
\* from the Start position ends exactly on the Goal position.
C2_PathStringReachesGoal ==
    (pc = "returned" /\ result = "True")
        => Replay(get_point(maze, START_POINT), get_path(movements))
             = get_point(maze, GOAL_POINT)

\* C3: when the Goal cell is fully enclosed by Wall cells, solve returns
\* failure, without an exception, and path has length 0 when it returns.
C3_EnclosedGoalFails ==
    (Ended /\ Enclosed(maze, GOAL_POINT))
        => (pc = "returned" /\ result = "False" /\ Len(path) = 0)

\* C4: when all four neighbours of Start are Wall, solve on a fresh solver
\* returns failure with path empty and raises no error from popping an empty
\* path.
C4_WalledStartFails ==
    (Ended /\ fresh /\ Enclosed(maze, START_POINT))
        => (pc = "returned" /\ result = "False" /\ Len(path) = 0 /\ err = "none")

\* C5: len(path) = len(movements) before solve is called and after solve
\* returns in either terminal state.
C5_ParallelLengths ==
    (pc \in {"idle", "returned"}) => Len(path) = Len(movements)

\* C6: no two entries of path denote the same grid cell, in every state of a
\* solve run.
C6_CycleFree ==
    \A i, j \in 1..Len(path) :
        i # j => CellOf(maze, path[i]) # CellOf(maze, path[j])

\* C7: every position held in current_pos or stored in path during solve is
\* within the grid bounds.
C7_PositionsInBounds ==
    /\ InBounds(maze, current_pos)
    /\ \A i \in 1..Len(path) : InBounds(maze, path[i])

\* C8: solve started on a fresh solver eventually returns True or False; it
\* neither loops forever nor aborts with an error.
C8_Terminates == <>(pc = "returned")

\* C9: a newly constructed instance starts with empty path and movements,
\* whatever solve calls other instances made before.
C9_NewInstanceStartsEmpty ==
    (pc = "idle") => (path = <<>> /\ movements = <<>>)

\* C10: whenever solve begins its search loop, path and movements are both
\* empty, on a first call and on a later call alike.
C10_SolveStartsEmpty ==
    [][(pc # "next" /\ pc # "loop" /\ pc' = "next")
          => (path' = <<>> /\ movements' = <<>>)]_vars

\* Some cell of kind Start or Goal is missing from the grid
MissingCell(mz) ==
    \/ \A y \in DOMAIN mz : \A x \in DOMAIN mz[y] : mz[y][x] # START_POINT
    \/ \A y \in DOMAIN mz : \A x \in DOMAIN mz[y] : mz[y][x] # GOAL_POINT

\* C11: when the grid has no Start cell or no Goal cell, solve ends with the
\* error raised by __get_point and performs no search step: path and movements
\* stay as they were (empty), no candidate movement is examined, and no
\* position is derived from the missing cell.
C11_MissingCellRaises ==
    (pc # "idle" /\ MissingCell(maze))
        => /\ pc = "raised" /\ err = "type" /\ result = "none"
           /\ path = <<>> /\ movements = <<>> /\ evals = 0
           /\ goal_pos = <<0, 0>>
           /\ IF get_point_raises(maze, START_POINT)
              THEN current_pos = <<0, 0>>
              ELSE current_pos = get_point(maze, START_POINT)

C11_Witness ==
    /\ pc = "raised" /\ err = "type"
    /\ ~get_point_raises(maze, START_POINT)
    /\ get_point_raises(maze, GOAL_POINT)
    /\ current_pos = get_point(maze, START_POINT)

\* The cells of the grid that some entry of pth denotes
Denoted(mz, pth) == { CellOf(mz, pth[i]) : i \in 1..Len(pth) }

\* C12: get_maze_with_movements produces a grid equal to the solver's grid
\* except that, for every index i, the cell at path[i] holds the direction
\* marker of movements[i]; it leaves the solver's grid, path and movements
\* unchanged, and its result is the rendering of that grid.
C12_OverlayMarksPath ==
    [][(pc = "returned" /\ result = "True" /\ pc' = "returned")
          => /\ maze' = maze /\ path' = path /\ movements' = movements
             /\ Len(movements) = Len(path)
             /\ \A i \in 1..Len(path) :
                    At(overlay', path[i][2], path[i][1]) = MarkerOf(movements[i])
             /\ \A c \in Cells(Width(maze), Height(maze)) \ Denoted(maze, path) :
                    overlay'[c[2]][c[1]] = maze[c[2]][c[1]]
             /\ output' = get_maze(overlay')]_vars

\* The characters of the lines, each line followed by a newline
RECURSIVE Joined(_)
Joined(lines) ==
    IF Len(lines) = 0 THEN <<>>
    ELSE Head(lines) \o <<"\n">> \o Joined(Tail(lines))

\* C13: parsing a rectangular text over '*', ' ', 'A', 'B' with from_txt and
\* rendering the unsolved grid with get_maze reproduces the original rows
\* character for character, each row followed by a newline.
C13_RoundTrip ==
    /\ pc # "raised"
    /\ (output # <<>>) => output = Joined(text)

C13_Witness ==
    /\ output # <<>>
    /\ Len(text) = TextRows
    /\ \A c \in TextChars : \E y \in 1..Len(text) : \E x \in 1..Len(text[y]) : text[y][x] = c

StartPos == get_point(maze, START_POINT)

\* C14: when no valid direction exists at current and path is non-empty, the
\* last entry is popped from path and movements together; if path is then
\* empty, current becomes the Start position and the search goes on with the
\* directions after the popped one; Failed is entered only when path was
\* already empty.
C14_BacktrackToOriginContinues ==
    [][(pc = "loop" /\ next_movement = NoMovement /\ Len(path) > 0)
          => /\ Len(path') = Len(path) - 1
             /\ Len(movements') = Len(movements) - 1
             /\ (Len(path') = 0 => current_pos' = StartPos /\ result' # "False")]_vars

\* The position before path[i] on the committed route
Predecessor(i) == IF i = 1 THEN StartPos ELSE path[i - 1]

\* C15: at every iteration boundary of the search loop, path and movements
\* have equal length, every path[i] is its predecessor (path[i-1], or the
\* Start position for i = 1) moved one cell in direction movements[i], and
\* current_pos is the last element of path, or Start when path is empty.
C15_ParallelStacks ==
    (pc \in {"next", "loop"})
        => /\ Len(path) = Len(movements)
           /\ \A i \in 1..Len(path) :
                  path[i] = get_point_by_movement(Predecessor(i), movements[i])
           /\ current_pos = (IF Len(path) = 0 THEN StartPos ELSE path[Len(path)])

C15_Witness ==
    /\ pc = "loop"
    /\ last_movement # NoMovement
    /\ next_movement # NoMovement
    /\ Len(path) >= 1
    /\ Cardinality(popped) >= 2

\* Position of a movement in the exploration order, 0 for none
OrderOf(m) == IF m = NoMovement THEN 0 ELSE MovementIndex(m)

\* The candidate at index k of the order is acceptable at current_pos: the
\* test of __is_valid_point passes
Acceptable(k) ==
    LET q == get_point_by_movement(current_pos, MOVEMENTS[k])
    IN ~AtRaises(maze, q[2], q[1]) /\ is_valid_point(maze, path, q)

\* C16: the movement chosen for a step is the first acceptable one in the
\* order North, East, South, West among those not ruled out: after a step
\* back that popped direction d only the directions strictly after d are
\* candidates, and every candidate before the chosen one is not acceptable.
C16_ExplorationOrder ==
    (pc = "loop" /\ next_movement # NoMovement)
        => /\ OrderOf(next_movement) > OrderOf(last_movement)
           /\ Acceptable(OrderOf(next_movement))
           /\ \A k \in (OrderOf(last_movement) + 1)..(OrderOf(next_movement) - 1) :
                  ~Acceptable(k)

C16_Witness ==
    /\ pc = "loop"
    /\ last_movement # NoMovement
    /\ next_movement # NoMovement
    /\ OrderOf(next_movement) > OrderOf(last_movement) + 1

\* C17: on a fresh solver the movement chosen for a step is never the opposite
\* of the last element of movements, and movements never holds a direction
\* directly followed by its opposite.
C17_NoImmediateRecrossing ==
    fresh =>
        /\ (pc = "loop" /\ next_movement # NoMovement /\ Len(movements) > 0)
              => next_movement # get_opposite(movements[Len(movements)])
        /\ \A i \in 1..(Len(movements) - 1) :
              movements[i + 1] # get_opposite(movements[i])

C17_Witness ==
    /\ fresh
    /\ pc = "loop"
    /\ next_movement # NoMovement
    /\ Len(movements) >= 2
    /\ LET back == get_point_by_movement(
                       current_pos, get_opposite(movements[Len(movements)]))
       IN ~AtRaises(maze, back[2], back[1])
          /\ At(maze, back[2], back[1]) = EMPTY

\* C18: every position appended to path denotes an Empty cell, and the
\* position reached by any step denotes an Empty or Goal cell; Wall and Start
\* cells are never stepped onto.
C18_OnlyTraversableCells ==
    /\ \A i \in 1..Len(path) : At(maze, path[i][2], path[i][1]) = EMPTY
    /\ (pc \in {"next", "loop", "returned"} /\ current_pos # StartPos)
          => At(maze, current_pos[2], current_pos[1]) \in {EMPTY, GOAL_POINT}

\* C19: no element of path denotes the Goal cell; on Succeeded current_pos is
\* the Goal position; the overlay keeps the Goal and Start cells.
C19_GoalNeverRecorded ==
    /\ \A i \in 1..Len(path) : At(maze, path[i][2], path[i][1]) # GOAL_POINT
    /\ (pc = "returned" /\ result = "True") => current_pos = goal_pos
    /\ (output # <<>>)
          => /\ overlay[goal_pos[2]][goal_pos[1]] = GOAL_POINT
             /\ overlay[StartPos[2]][StartPos[1]] = START_POINT

\* No position occurs twice in pth
NoRepeat(pth) == \A i, j \in 1..Len(pth) : i # j => pth[i] # pth[j]

\* C20 as stated: one solve run on a grid of R rows and C columns examines at
\* most R * C * 4 candidate directions, and a position popped from path is
\* never stepped onto again in that run.
C20_WorkWithinGridBound ==
    /\ evals <= Height(maze) * Width(maze) * 4
    /\ \A i \in 1..Len(path) : path[i] \notin popped

\* C20 as amended: every pass of the search loop examines at most 4 candidate
\* directions and no position occurs twice in path, so a run is finite; its
\* total work is not bounded by R * C * 4.
C20_WorkPerStepBounded ==
    [][evals' <= evals + Len(MOVEMENTS) /\ NoRepeat(path')]_vars

C20_Witness ==
    /\ evals > Height(maze) * Width(maze) * 4
    /\ \E i \in 1..Len(path) : path[i] \in popped
    /\ \A i \in 1..Len(path) : InBounds(maze, path[i])

====
